---- MODULE Spec2Model ----
(***************************************************************************)
(* Model of pkg/bootstrap/docker/openshift/helper.go: Helper.Start (the    *)
(* start-up sequence of the OpenShift master container) and the port       *)
(* conflict check (checkPortsInUse / getUsedPorts).                        *)
(*                                                                         *)
(* Helper.Start is modelled as a sequential process; every action is the   *)
(* code between two collaborator calls, and the result of each             *)
(* collaborator call (run helper, host helper, docker helper, dial, HTTP   *)
(* client, os) is chosen nondeterministically.                             *)
(***************************************************************************)
EXTENDS Integers, Sequences, FiniteSets, TLC

VARIABLES
    opt,                      \* *StartOptions of this call
    routingSuffix,            \* h.routingSuffix
    openShiftContainerBinds,  \* package-level bind list
    hostCfg,                  \* <HostConfigDir>/master/master-config.yaml on the Docker host
    fs,                       \* local temporary directories, in creation order
    daemon,                   \* the named container h.containerName on the Docker host
    pc,                       \* position of Start
    binds, env,               \* locals of Start
    configDir,                \* local of Start ("" is NoPath)
    skipCreateConfig,         \* local of Start
    err,                      \* local err of Start, declared at line 230
    running,                  \* local of Start, line 264
    dialAttempts,             \* connection attempts made by WaitForSuccessfulDial
    polls,                    \* status codes of the readiness GETs, in order
    resp,                     \* local resp of the readiness loop
    genCalls, copyCalls, patchCalls, launchCalls, queryCalls,
    genBinds, launchBinds,    \* bind lists handed to the two containers
    probeDir, clientDir,      \* directory staged by the probe / given to masterHTTPClient
    retPath, retErr,          \* values returned by Start
    removeFailed,             \* some os.RemoveAll returned an error
    table,                    \* the connection table the host reports, as lines of fields
    data, ports, portCheck,   \* arguments and result of checkPortsInUse
    heap,                     \* the backing arrays of the slices, in allocation order
    calls,                    \* the concurrent calls of Start: options, position, slices
    testIP,                   \* the argument ip of TestIP
    ipPc,                     \* position of TestIP
    testId,                   \* id of the test container, "" until it is started
    listener,                 \* the test container on the Docker host
    testHost,                 \* the address TestIP dials
    ipDials,                  \* connection attempts made by WaitForSuccessfulDial
    stopCalls,                \* calls of StopAndRemoveContainer
    stopFailed,               \* StopAndRemoveContainer returned an error, which was logged
    ipRet                     \* the error TestIP returns

startVars == <<opt, routingSuffix, openShiftContainerBinds, hostCfg, fs, daemon, pc,
               binds, env, configDir, skipCreateConfig, err, running, dialAttempts,
               polls, resp, genCalls, copyCalls, patchCalls, launchCalls, queryCalls,
               genBinds, launchBinds, probeDir, clientDir, retPath, retErr, removeFailed>>

portVars == <<table, data, ports, portCheck>>

bindVars == <<heap, calls>>

ipVars == <<testIP, ipPc, testId, listener, testHost, ipDials, stopCalls, stopFailed, ipRet>>

vars == <<startVars, portVars, bindVars, ipVars>>

----------------------------------------------------------------------------
(* Bounds of the model *)

\* readiness GETs recorded exactly; later ones overwrite the last record
MaxPolls == 3

\* lines of a connection table
MaxLines == 2

\* fields of the one line of a connection table that is not a well-formed record
MaxFields == 4

----------------------------------------------------------------------------
(* Constants of the program *)

serverUpTimeout == 35

StatusOK == 200

StatusServiceUnavailable == 503

StatusForbidden == 403

StatusInternalServerError == 500

\* the empty path "" (zero value of configDir, and the path returned with an error)
NoPath == 0

\* the nil error
Nil == "nil"

initialBinds == <<"/:/rootfs:ro", "/var/run:/var/run:rw", "/sys:/sys:ro",
                  "/var/lib/docker:/var/lib/docker">>

----------------------------------------------------------------------------
(* Errors *)

\* errors.NewError(msg): an error of this package, without a cause
NewError(msg) == [class |-> "stage", msg |-> msg, cause |-> Nil, status |-> 0, body |-> ""]

\* Error.WithCause(cause)
WithCause(e, cause) == [e EXCEPT !.cause = cause]

\* an error of a collaborator, returned as it is
RawError(c) == [class |-> "collaborator", msg |-> c, cause |-> Nil, status |-> 0, body |-> ""]

NoError == [class |-> "nil", msg |-> "", cause |-> Nil, status |-> 0, body |-> ""]

ErrOpenShiftFailedToStart == NewError("FailedToStart")

ErrTimedOutWaitingForStart == NewError("TimedOutWaitingForStart")

----------------------------------------------------------------------------
(* Files *)

NoFile == [present |-> FALSE, subdomain |-> "", rest |-> ""]

\* a master-config.yaml as an earlier run, or the generation command, leaves it
GeneratedCfg == [present |-> TRUE, subdomain |-> "router.default.svc.cluster.local",
                 rest |-> "generated"]

\* a removal that reports success and removes nothing
RemoveAllKeeps(files, path, removed) == files

\* os.RemoveAll(path): "" names nothing; removal may fail and leave the directory
RemoveAll(files, path, removed) ==
    IF path = NoPath \/ ~removed THEN files
    ELSE [files EXCEPT ![path].exists = FALSE]

\* Helper.copyConfig: outcome is what ioutil.TempDir and CopyFromHost do
copyConfig(files, host, outcome, removed) ==
    IF outcome = "tempDirErr"
    THEN [fs |-> files, path |-> NoPath, err |-> "TempDir error", removeErr |-> FALSE]
    ELSE IF outcome = "copyErr"
    THEN [fs   |-> RemoveAll(Append(files, [exists |-> TRUE, master |-> NoFile]),
                             Len(files) + 1, removed),
          path |-> NoPath, err |-> "CopyFromHost error", removeErr |-> ~removed]
    ELSE [fs   |-> Append(files, [exists |-> TRUE, master |-> host]),
          path |-> Len(files) + 1, err |-> Nil, removeErr |-> FALSE]

\* configapilatest.ReadMasterConfig: the configuration object a file parses to
ReadMasterConfig(file) == [Subdomain |-> file.subdomain, Rest |-> file.rest]

\* configapilatest.WriteYAML: the file contents a configuration object serializes to
WriteYAML(cfg) == [present |-> TRUE, subdomain |-> cfg.Subdomain, rest |-> cfg.Rest]

\* an updateConfig that never looks at the routing suffix of the helper
SubdomainAlwaysXip(suffix, serverIP) == serverIP \o ".xip.io"

\* the routing subdomain updateConfig sets
Subdomain(suffix, serverIP) ==
    IF suffix # "" THEN suffix ELSE serverIP \o ".xip.io"

\* Helper.updateConfig: outcome is what the codec, WriteFile and the host copy do
updateConfig(files, host, dir, suffix, serverIP, outcome) ==
    LET file     == files[dir].master
        cfg      == [ReadMasterConfig(file) EXCEPT !.Subdomain = Subdomain(suffix, serverIP)]
        cfgBytes == WriteYAML(cfg)
        written  == [files EXCEPT ![dir].master = cfgBytes]
    IN  IF ~file.present \/ outcome = "readErr"
        THEN [fs |-> files, host |-> host, err |-> "ReadMasterConfig error"]
        ELSE IF outcome = "yamlErr"
        THEN [fs |-> files, host |-> host, err |-> "WriteYAML error"]
        ELSE IF outcome = "writeErr"
        THEN [fs |-> files, host |-> host, err |-> "WriteFile error"]
        ELSE IF outcome = "commitErr"
        THEN [fs |-> written, host |-> host, err |-> "CopyMasterConfigToHost error"]
        ELSE [fs |-> written, host |-> cfgBytes, err |-> Nil]

\* a probe that looks at the staged directory, not at the file in it
StatDirectoryOnly(files, dir) == files[dir].exists

\* os.Stat(<dir>/master/master-config.yaml) returns no error
StatMasterConfig(files, dir) == files[dir].exists /\ files[dir].master.present

----------------------------------------------------------------------------
(* Helper.Start *)

\* client.Get failed at the transport level: there is no response
NoResponse == [StatusCode |-> 0, Body |-> "", readable |-> FALSE]

\* TestIP is not running
IPIdle ==
    /\ testIP = "" /\ ipPc = "idle" /\ testId = "" /\ listener = "absent" /\ testHost = ""
    /\ ipDials = 0 /\ stopCalls = 0 /\ stopFailed = FALSE /\ ipRet = NoError

Init ==
    /\ opt \in [ServerIP : {"10.0.0.5"}, HostVolumesDir : {"/vol"},
                HostConfigDir : {"/cfg"}, HostDataDir : {"", "/data"},
                Environment : {<<"HTTP_PROXY=http://proxy:3128">>},
                UseSharedVolume : BOOLEAN, UseExistingConfig : BOOLEAN]
    /\ routingSuffix \in {"", "apps.example.com"}
    /\ openShiftContainerBinds = initialBinds
    /\ hostCfg \in {NoFile, GeneratedCfg}
    /\ fs = <<>>
    /\ daemon = "absent"
    /\ pc = "entry"
    /\ binds = <<>>
    /\ env = <<>>
    /\ configDir = NoPath
    /\ skipCreateConfig = FALSE
    /\ err = Nil
    /\ running = FALSE
    /\ dialAttempts = 0
    /\ polls = <<>>
    /\ resp = NoResponse
    /\ genCalls = 0 /\ copyCalls = 0 /\ patchCalls = 0 /\ launchCalls = 0 /\ queryCalls = 0
    /\ genBinds = <<>> /\ launchBinds = <<>>
    /\ probeDir = NoPath /\ clientDir = NoPath
    /\ retPath = NoPath /\ retErr = NoError
    /\ removeFailed = FALSE
    /\ table = <<>> /\ data = <<>> /\ ports = <<>>
    /\ portCheck = [state |-> "idle", conflicts |-> <<>>]
    /\ heap = <<>> /\ calls = <<>>
    /\ IPIdle

\* return path, e
Return(path, e) ==
    /\ pc' = "returned"
    /\ retPath' = path
    /\ retErr' = e

\* cleanupConfig(): errors.LogError(os.RemoveAll(configDir)), configDir read when called
cleanupConfig(files, dir, removed) == RemoveAll(files, dir, removed)

\* a Start that probes the host for a configuration whatever the options say
FirstStageAlwaysProbe(useExisting) == "probe"

\* lines 183 and 195: the probe runs only when UseExistingConfig is set
FirstStage(useExisting) == IF useExisting THEN "probe" ELSE "generate"

\* lines 165-183: bind list and environment, then the choice of the first stage
Entry ==
    /\ pc = "entry"
    /\ binds' = Append(Append(openShiftContainerBinds,
                    IF opt.UseSharedVolume
                    THEN opt.HostVolumesDir \o ":" \o opt.HostVolumesDir \o ":shared"
                    ELSE opt.HostVolumesDir \o ":" \o opt.HostVolumesDir),
                    opt.HostConfigDir \o ":/var/lib/origin/openshift.local.config:z")
    /\ env' = (IF opt.UseSharedVolume THEN <<"OPENSHIFT_CONTAINERIZED=false">> ELSE <<>>)
               \o opt.Environment
    /\ pc' = FirstStage(opt.UseExistingConfig)
    /\ UNCHANGED <<opt, routingSuffix, openShiftContainerBinds, hostCfg, fs, daemon,
                   configDir, skipCreateConfig, err, running, dialAttempts, polls, resp,
                   genCalls, copyCalls, patchCalls, launchCalls, queryCalls,
                   genBinds, launchBinds, probeDir, clientDir, retPath, retErr, removeFailed, portVars, bindVars, ipVars>>

\* a Start that generates whatever the probe found
AfterProbeAlwaysGenerate(skip) == "generate"

\* a Start that gives up when the probe finds nothing
AfterProbeFatal(skip) == IF skip THEN "configFiles" ELSE "returned"

\* line 195: a probe that found no configuration sends Start on to the generation
AfterProbe(skip) == IF skip THEN "configFiles" ELSE "generate"

\* lines 183-192: stage the host configuration and look for the master configuration
Probe ==
    /\ pc = "probe"
    /\ \E outcome \in {"tempDirErr", "copyErr", "ok"}, removed \in BOOLEAN :
         LET r == copyConfig(fs, hostCfg, outcome, removed)
         IN  /\ fs' = r.fs
             /\ configDir' = r.path
             /\ probeDir' = r.path
             /\ removeFailed' = (removeFailed \/ r.removeErr)
             /\ skipCreateConfig' = (r.err = Nil /\ StatMasterConfig(r.fs, r.path))
    /\ copyCalls' = copyCalls + 1
    /\ pc' = AfterProbe(skipCreateConfig')
    /\ UNCHANGED <<opt, routingSuffix, openShiftContainerBinds, hostCfg, daemon,
                   binds, env, err, running, dialAttempts, polls, resp,
                   genCalls, patchCalls, launchCalls, queryCalls,
                   genBinds, launchBinds, clientDir, retPath, retErr, portVars, bindVars, ipVars>>

\* lines 195-219: run the command that writes a fresh configuration on the host
Generate ==
    /\ pc = "generate"
    /\ genCalls' = genCalls + 1
    /\ genBinds' = binds
    /\ \E ok \in BOOLEAN :
         IF ok
         THEN /\ hostCfg' = GeneratedCfg
              /\ pc' = "stage"
              /\ UNCHANGED <<retPath, retErr>>
         ELSE /\ Return(NoPath, WithCause(NewError("could not create OpenShift configuration"),
                                          "Run error"))
              /\ UNCHANGED hostCfg
    /\ UNCHANGED <<opt, routingSuffix, openShiftContainerBinds, fs, daemon,
                   binds, env, configDir, skipCreateConfig, err, running, dialAttempts,
                   polls, resp, copyCalls, patchCalls, launchCalls, queryCalls,
                   launchBinds, probeDir, clientDir, removeFailed, portVars, bindVars, ipVars>>

\* lines 220-223: stage the configuration that was just written
Stage ==
    /\ pc = "stage"
    /\ copyCalls' = copyCalls + 1
    /\ \E outcome \in {"tempDirErr", "copyErr", "ok"}, removed \in BOOLEAN :
         LET r == copyConfig(fs, hostCfg, outcome, removed)
         IN  /\ fs' = r.fs
             /\ configDir' = r.path
             /\ removeFailed' = (removeFailed \/ r.removeErr)
             /\ IF r.err = Nil
                THEN pc' = "update" /\ UNCHANGED <<retPath, retErr>>
                ELSE Return(NoPath, WithCause(NewError("could not copy OpenShift configuration"),
                                              r.err))
    /\ UNCHANGED <<opt, routingSuffix, openShiftContainerBinds, hostCfg, daemon,
                   binds, env, skipCreateConfig, err, running, dialAttempts, polls, resp,
                   genCalls, patchCalls, launchCalls, queryCalls,
                   genBinds, launchBinds, probeDir, clientDir, portVars, bindVars, ipVars>>

\* lines 224-228: patch the routing subdomain and copy the file back to the host
Update ==
    /\ pc = "update"
    /\ patchCalls' = patchCalls + 1
    /\ \E outcome \in {"readErr", "yamlErr", "writeErr", "commitErr", "ok"},
          removed \in BOOLEAN :
         LET r == updateConfig(fs, hostCfg, configDir, routingSuffix, opt.ServerIP, outcome)
         IN  /\ hostCfg' = r.host
             /\ IF r.err = Nil
                THEN /\ fs' = r.fs
                     /\ pc' = "configFiles"
                     /\ UNCHANGED <<retPath, retErr, removeFailed>>
                ELSE /\ fs' = cleanupConfig(r.fs, configDir, removed)
                     /\ removeFailed' = (removeFailed \/ ~removed)
                     /\ Return(NoPath,
                               WithCause(NewError("could not update OpenShift configuration"),
                                         r.err))
    /\ UNCHANGED <<opt, routingSuffix, openShiftContainerBinds, daemon,
                   binds, env, configDir, skipCreateConfig, err, running, dialAttempts,
                   polls, resp, genCalls, copyCalls, launchCalls, queryCalls,
                   genBinds, launchBinds, probeDir, clientDir, portVars, bindVars, ipVars>>

\* lines 230-234: getOpenShiftConfigFiles, which asks the host for its hostname
ConfigFiles ==
    /\ pc = "configFiles"
    /\ \E ok \in BOOLEAN, removed \in BOOLEAN :
         IF ok
         THEN /\ err' = Nil
              /\ pc' = "launch"
              /\ UNCHANGED <<fs, retPath, retErr, removeFailed>>
         ELSE /\ err' = "Hostname error"
              /\ fs' = cleanupConfig(fs, configDir, removed)
              /\ removeFailed' = (removeFailed \/ ~removed)
              /\ Return(NoPath,
                        WithCause(NewError("could not get OpenShift configuration file paths"),
                                  err'))
    /\ UNCHANGED <<opt, routingSuffix, openShiftContainerBinds, hostCfg, daemon,
                   binds, env, configDir, skipCreateConfig, running, dialAttempts, polls, resp,
                   genCalls, copyCalls, patchCalls, launchCalls, queryCalls,
                   genBinds, launchBinds, probeDir, clientDir, portVars, bindVars, ipVars>>

\* a launch that discards its container when the command ends, as the
\* generation's does
StartDaemonDiscarding(container) == "absent"

\* lines 249-257: Start() of a run without DiscardContainer leaves the named container
StartDaemon(container) == "present"

\* lines 236-260: start the named daemon container
Launch ==
    /\ pc = "launch"
    /\ binds' = IF opt.HostDataDir # ""
                THEN Append(binds, opt.HostDataDir \o ":/var/lib/origin/openshift.local.etcd:z")
                ELSE binds
    /\ launchBinds' = binds'
    /\ launchCalls' = launchCalls + 1
    /\ \E ok \in BOOLEAN :
         IF ok
         THEN /\ err' = Nil
              /\ daemon' = StartDaemon(daemon)
              /\ pc' = "query"
              /\ UNCHANGED <<retPath, retErr>>
         ELSE /\ err' = "Start error"
              /\ UNCHANGED daemon
              /\ Return(NoPath, WithCause(NewError("cannot start OpenShift daemon"), err'))
    /\ UNCHANGED <<opt, routingSuffix, openShiftContainerBinds, hostCfg, fs,
                   env, configDir, skipCreateConfig, running, dialAttempts, polls, resp,
                   genCalls, copyCalls, patchCalls, queryCalls,
                   genBinds, probeDir, clientDir, removeFailed, portVars, bindVars, ipVars>>

\* the two errors of lines 269 and 276 taken for one another
StateErrorSwapped(queryErr, isRunning) ==
    IF queryErr # Nil
    THEN WithCause(NewError("cannot get state of OpenShift container"), queryErr)
    ELSE IF ~isRunning THEN ErrTimedOutWaitingForStart
    ELSE NoError

\* a Start that takes a container that is not running for a running one
StateErrorIgnoresStopped(queryErr, isRunning) ==
    IF queryErr # Nil
    THEN WithCause(NewError("cannot get state of OpenShift container"), queryErr)
    ELSE NoError

\* lines 265-270: the error for the state the container was found in, if any
StateError(queryErr, isRunning) ==
    IF queryErr # Nil
    THEN WithCause(NewError("cannot get state of OpenShift container"), queryErr)
    ELSE IF ~isRunning THEN ErrOpenShiftFailedToStart
    ELSE NoError

\* lines 262-270: after the grace period, ask whether the container is running
Query ==
    /\ pc = "query"
    /\ queryCalls' = queryCalls + 1
    /\ \E state \in {"error", "stopped", "running"} :
         /\ err' = IF state = "error" THEN "GetContainerState error" ELSE Nil
         /\ running' = (state = "running")
         /\ IF StateError(err', running') # NoError
            THEN Return(NoPath, StateError(err', running'))
            ELSE pc' = "dial" /\ UNCHANGED <<retPath, retErr>>
    /\ UNCHANGED <<opt, routingSuffix, openShiftContainerBinds, hostCfg, fs, daemon,
                   binds, env, configDir, skipCreateConfig, dialAttempts, polls, resp,
                   genCalls, copyCalls, patchCalls, launchCalls,
                   genBinds, launchBinds, probeDir, clientDir, removeFailed, portVars, bindVars, ipVars>>

\* spec 4.2 NetworkProbe: the probe gives up after `retries` failed connection attempts
DialExhausted(attempts, retries) == attempts >= retries

\* lines 272-277: one connection attempt of WaitForSuccessfulDial against <ServerIP>:8443
Dial ==
    /\ pc = "dial"
    /\ dialAttempts' = dialAttempts + 1
    /\ \E connected \in BOOLEAN :
         IF connected
         THEN pc' = "client" /\ UNCHANGED <<retPath, retErr>>
         ELSE IF DialExhausted(dialAttempts', serverUpTimeout)
         THEN Return(NoPath, ErrTimedOutWaitingForStart)
         ELSE UNCHANGED <<pc, retPath, retErr>>
    /\ UNCHANGED <<opt, routingSuffix, openShiftContainerBinds, hostCfg, fs, daemon,
                   binds, env, configDir, skipCreateConfig, err, running, polls, resp,
                   genCalls, copyCalls, patchCalls, launchCalls, queryCalls,
                   genBinds, launchBinds, probeDir, clientDir, removeFailed, portVars, bindVars, ipVars>>

\* lines 278-282: masterHTTPClient(configDir); its error is returned as it is
Client ==
    /\ pc = "client"
    /\ clientDir' = configDir
    /\ \E ok \in BOOLEAN :
         /\ err' = IF ok THEN Nil ELSE "TransportFor error"
         /\ IF err' # Nil
            THEN Return(NoPath, RawError(err'))
            ELSE pc' = "get" /\ UNCHANGED <<retPath, retErr>>
    /\ UNCHANGED <<opt, routingSuffix, openShiftContainerBinds, hostCfg, fs, daemon,
                   binds, env, configDir, skipCreateConfig, running, dialAttempts, polls,
                   resp, genCalls, copyCalls, patchCalls, launchCalls, queryCalls,
                   genBinds, launchBinds, probeDir, removeFailed, portVars, bindVars, ipVars>>

\* a loop that asks again after every status but 200
TransientAnyFailure(status) == status # StatusOK

\* a loop that asks again after 503 only
TransientOnlyUnavailable(status) == status = StatusServiceUnavailable

\* lines 291-292: the statuses after which the loop sleeps and asks again
Transient(status) == status \in {StatusServiceUnavailable, StatusForbidden}

\* the status codes the readiness endpoint answers with in the model
Statuses == {StatusOK, StatusServiceUnavailable, StatusForbidden, StatusInternalServerError}

\* the responses of the endpoint; readable: ioutil.ReadAll(resp.Body) returns no error
Responses == [StatusCode : Statuses, Body : {"forbidden", "etcd down"}, readable : BOOLEAN]

\* the record of the GETs issued: exact up to MaxPolls, the last entry is always the latest
Recorded(history, status) ==
    IF Len(history) < MaxPolls THEN Append(history, status)
    ELSE [history EXCEPT ![MaxPolls] = status]

\* line 286: the cause attached to the transport error is the local err, not ierr
TransportErrorCause(e, ierr) == e

\* lines 296-301: the error for a status that is neither 200 nor 503 nor 403
NotReadyError(r, ierr) ==
    WithCause([NewError("server is not ready") EXCEPT
                   !.status = r.StatusCode,
                   !.body = IF r.readable THEN r.Body ELSE ""],
              ierr)

\* lines 283-304: one iteration of the readiness loop, up to its sleep
Get ==
    /\ pc = "get"
    /\ \E r \in Responses \cup {NoResponse} :
         /\ resp' = r
         /\ polls' = Recorded(polls, r.StatusCode)
         /\ IF r = NoResponse
            THEN Return(NoPath,
                        WithCause(NewError("cannot access master readiness URL"),
                                  TransportErrorCause(err, "Get error")))
            ELSE IF r.StatusCode = StatusOK
            THEN Return(configDir, NoError)
            ELSE IF Transient(r.StatusCode)
            THEN pc' = "sleep" /\ UNCHANGED <<retPath, retErr>>
            ELSE Return(NoPath, NotReadyError(r, Nil))
    /\ UNCHANGED <<opt, routingSuffix, openShiftContainerBinds, hostCfg, fs, daemon,
                   binds, env, configDir, skipCreateConfig, err, running, dialAttempts,
                   genCalls, copyCalls, patchCalls, launchCalls, queryCalls,
                   genBinds, launchBinds, probeDir, clientDir, removeFailed, portVars, bindVars, ipVars>>

\* lines 293-294: time.Sleep(500 * time.Millisecond); continue
Sleep ==
    /\ pc = "sleep"
    /\ pc' = "get"
    /\ UNCHANGED <<opt, routingSuffix, openShiftContainerBinds, hostCfg, fs, daemon,
                   binds, env, configDir, skipCreateConfig, err, running, dialAttempts,
                   polls, resp, genCalls, copyCalls, patchCalls, launchCalls, queryCalls,
                   genBinds, launchBinds, probeDir, clientDir, retPath, retErr, removeFailed, portVars, bindVars, ipVars>>

Next ==
    \/ Entry
    \/ Probe
    \/ Generate
    \/ Stage
    \/ Update
    \/ ConfigFiles
    \/ Launch
    \/ Query
    \/ Dial
    \/ Client
    \/ Get
    \/ Sleep

Spec == Init /\ [][Next]_vars

\* Start is run by one goroutine that keeps running: no step of it waits for ever
FairSpec == Init /\ [][Next]_vars /\ WF_vars(Next)

Returned == pc = "returned"

----------------------------------------------------------------------------
(* checkPortsInUse and getUsedPorts.  A string is the sequence of its       *)
(* characters.                                                             *)

tcpPorts == <<53, 80, 443, 4001, 7001, 8443, 10250>>

\* the white space strings.Fields splits at
IsSpace(c) == c \in {" ", "\t", "\n", "\r", "\f"}

\* strings.Contains(s, c) for a one-character c
Contains(s, c) == \E i \in 1..Len(s) : s[i] = c

RECURSIVE SplitFrom(_, _, _, _)
\* the pieces of s from position i on; cur is the piece being read
SplitFrom(s, sep, i, cur) ==
    IF i > Len(s) THEN <<cur>>
    ELSE IF s[i] = sep THEN <<cur>> \o SplitFrom(s, sep, i + 1, <<>>)
    ELSE SplitFrom(s, sep, i + 1, Append(cur, s[i]))

\* strings.Split(s, sep) for a one-character sep
Split(s, sep) == SplitFrom(s, sep, 1, <<>>)

RECURSIVE FieldsFrom(_, _, _)
FieldsFrom(s, i, cur) ==
    IF i > Len(s) THEN (IF cur = <<>> THEN <<>> ELSE <<cur>>)
    ELSE IF IsSpace(s[i])
    THEN (IF cur = <<>> THEN <<>> ELSE <<cur>>) \o FieldsFrom(s, i + 1, <<>>)
    ELSE FieldsFrom(s, i + 1, Append(cur, s[i]))

\* strings.Fields(s): the maximal runs of characters that are not white space
Fields(s) == FieldsFrom(s, 1, <<>>)

HexDigits == <<"0", "1", "2", "3", "4", "5", "6", "7", "8", "9",
               "A", "B", "C", "D", "E", "F">>

LowerHexDigits == <<"0", "1", "2", "3", "4", "5", "6", "7", "8", "9",
                    "a", "b", "c", "d", "e", "f">>

IsHexDigit(c) == \E d \in 1..16 : HexDigits[d] = c \/ LowerHexDigits[d] = c

HexDigit(c) == (CHOOSE d \in 1..16 : HexDigits[d] = c \/ LowerHexDigits[d] = c) - 1

RECURSIVE HexValue(_, _)
\* the value of the first n digits of s
HexValue(s, n) == IF n = 0 THEN 0 ELSE 16 * HexValue(s, n - 1) + HexDigit(s[n])

\* strconv.ParseInt(s, 16, 0), for the strings of the model (at most 7 digits)
ParseInt(s) ==
    LET signed == s # <<>> /\ s[1] \in {"+", "-"}
        digits == IF signed THEN Tail(s) ELSE s
    IN  IF digits = <<>> \/ \E i \in 1..Len(digits) : ~IsHexDigit(digits[i])
        THEN [ok |-> FALSE, value |-> 0]
        ELSE [ok |-> TRUE,
              value |-> IF signed /\ s[1] = "-" THEN 0 - HexValue(digits, Len(digits))
                        ELSE HexValue(digits, Len(digits))]

\* line 411: parts[3] of a line that has two or three fields is out of range
StateIndexInRange(parts) == Len(parts) >= 4

\* lines 398-418: what one line adds to the ports in use; panic: the index is out of range
usedPortOfLine(line) ==
    LET parts == Fields(line)
    IN  IF Len(parts) < 2 THEN [panic |-> FALSE, ports |-> {}]
        ELSE IF ~Contains(parts[1], ":") THEN [panic |-> FALSE, ports |-> {}]
        ELSE LET localAddress == Split(parts[2], ":")
             IN  IF Len(localAddress) < 2 THEN [panic |-> FALSE, ports |-> {}]
                 ELSE IF ~StateIndexInRange(parts) THEN [panic |-> TRUE, ports |-> {}]
                 ELSE IF parts[4] # <<"0", "A">> THEN [panic |-> FALSE, ports |-> {}]
                 ELSE LET port == ParseInt(localAddress[2])
                      IN  [panic |-> FALSE,
                           ports |-> IF port.ok THEN {port.value} ELSE {}]

RECURSIVE usedPortsOfLines(_, _)
\* the loop of getUsedPorts over the first n lines
usedPortsOfLines(lines, n) ==
    IF n = 0 THEN [panic |-> FALSE, ports |-> {}]
    ELSE LET before == usedPortsOfLines(lines, n - 1)
             this   == usedPortOfLine(lines[n])
         IN  IF before.panic THEN before
             ELSE [panic |-> this.panic, ports |-> before.ports \cup this.ports]

getUsedPorts(text) ==
    LET lines == Split(text, "\n")
    IN  usedPortsOfLines(lines, Len(lines))

checkPortsInUse(text, required) ==
    LET used      == getUsedPorts(text)
        inUse(p)  == p \in used.ports
        conflicts == SelectSeq(required, inUse)
    IN  IF used.panic THEN [state |-> "panic", conflicts |-> <<>>]
        ELSE IF Len(conflicts) > 0 THEN [state |-> "error", conflicts |-> conflicts]
        ELSE [state |-> "nil", conflicts |-> <<>>]

(* The connection tables of the model: lines of fields, as /proc/net/tcp    *)
(* prints them.  port is the local port a field names when it is read as a *)
(* local address, -1 when it names none.                                   *)

FieldIndex == [text |-> <<"0", ":">>, port |-> -1]

FieldAddr80 == [text |-> <<"0", "1", "0", "0", "0", "0", "7", "F", ":", "0", "0", "5", "0">>,
                port |-> 80]

FieldAddr443 == [text |-> <<"0", "0", "0", "0", "0", "0", "0", "0", ":", "0", "1", "B", "B">>,
                 port |-> 443]

FieldListen == [text |-> <<"0", "A">>, port |-> -1]

FieldEstablished == [text |-> <<"0", "1">>, port |-> -1]

TableFields == {FieldIndex, FieldAddr80, FieldAddr443, FieldListen, FieldEstablished}

WellFormedLines ==
    { <<FieldIndex, a, FieldIndex, st>> :
          a \in {FieldAddr80, FieldAddr443}, st \in {FieldListen, FieldEstablished} }

AnyLines == UNION { [1..n -> TableFields] : n \in 0..MaxFields }

\* tables of at most MaxLines lines, one of which is any line
Tables ==
    { before \o <<line>> \o after :
          line \in AnyLines,
          before \in UNION { [1..n -> WellFormedLines] : n \in 0..(MaxLines - 1) },
          after \in UNION { [1..n -> WellFormedLines] : n \in 0..(MaxLines - 1) } }

RECURSIVE RenderLine(_, _)
\* the first n fields of a line, each after two spaces
RenderLine(line, n) ==
    IF n = 0 THEN <<>> ELSE RenderLine(line, n - 1) \o <<" ", " ">> \o line[n].text

RECURSIVE Render(_, _)
\* the first n lines of a table, each ended by a newline
Render(t, n) ==
    IF n = 0 THEN <<>> ELSE Render(t, n - 1) \o RenderLine(t[n], Len(t[n])) \o <<"\n">>

RequiredLists == {tcpPorts, <<443, 80>>, <<80>>}

\* Helper.Start is not running: its variables keep one initial value
StartIdle ==
    /\ opt = [ServerIP |-> "10.0.0.5", HostVolumesDir |-> "/vol", HostConfigDir |-> "/cfg",
              HostDataDir |-> "", Environment |-> <<>>,
              UseSharedVolume |-> FALSE, UseExistingConfig |-> FALSE]
    /\ routingSuffix = ""
    /\ openShiftContainerBinds = initialBinds
    /\ hostCfg = NoFile
    /\ fs = <<>>
    /\ daemon = "absent"
    /\ pc = "idle"
    /\ binds = <<>>
    /\ env = <<>>
    /\ configDir = NoPath
    /\ skipCreateConfig = FALSE
    /\ err = Nil
    /\ running = FALSE
    /\ dialAttempts = 0
    /\ polls = <<>>
    /\ resp = NoResponse
    /\ genCalls = 0 /\ copyCalls = 0 /\ patchCalls = 0 /\ launchCalls = 0 /\ queryCalls = 0
    /\ genBinds = <<>> /\ launchBinds = <<>>
    /\ probeDir = NoPath /\ clientDir = NoPath
    /\ retPath = NoPath /\ retErr = NoError
    /\ removeFailed = FALSE

PortInit ==
    /\ StartIdle
    /\ table \in { t \in Tables : Len(t) <= MaxLines }
    /\ data = Render(table, Len(table))
    /\ ports \in RequiredLists
    /\ portCheck = [state |-> "idle", conflicts |-> <<>>]
    /\ heap = <<>> /\ calls = <<>>
    /\ IPIdle

\* line 94 of TestPorts: checkPortsInUse(portData, ports)
CheckPorts ==
    /\ portCheck.state = "idle"
    /\ portCheck' = checkPortsInUse(data, ports)
    /\ UNCHANGED <<startVars, table, data, ports, bindVars, ipVars>>

PortNext == CheckPorts

PortSpec == PortInit /\ [][PortNext]_vars

(* What the table says, read field by field. *)

\* the line is a connection record: four fields or more, an index, a local address
IsRecord(line) ==
    /\ Len(line) >= 4
    /\ Contains(line[1].text, ":")
    /\ Contains(line[2].text, ":")

ListeningPorts(t) ==
    { t[i][2].port : i \in { j \in 1..Len(t) : /\ IsRecord(t[j])
                                                /\ t[j][4] = FieldListen
                                                /\ t[j][2].port >= 0 } }


----------------------------------------------------------------------------
(* The bind list and the environment of concurrent calls of Helper.Start.   *)
(* A slice is a header (backing array, length, capacity); the backing      *)
(* arrays live in the heap, and append writes in place while the capacity  *)
(* allows it.                                                              *)

Calls == {1, 2}

NoArray == 0

\* []string{}: no backing array
EmptySlice == [arr |-> NoArray, len |-> 0, cap |-> 0]

\* a bind list declared with room to spare
LiteralCapSpare(n) == n + 4

\* lines 34-39: a slice literal of n elements has capacity n
LiteralCap(n) == n

\* the backing array of openShiftContainerBinds is the first one allocated
GlobalArray == 1

\* the header of openShiftContainerBinds, which no line of the package assigns
GlobalSlice == [arr |-> GlobalArray, len |-> Len(initialBinds),
                cap |-> LiteralCap(Len(initialBinds))]

\* an array of capacity c that starts with xs
Padded(xs, c) == [i \in 1..c |-> IF i <= Len(xs) THEN xs[i] ELSE ""]

\* the elements of slice s
SliceValue(h, s) == [i \in 1..s.len |-> h[s.arr][i]]

\* the capacity append grows to: twice the old one, or what is needed if that is more
GrowCap(oldCap, needed) == IF needed > 2 * oldCap THEN needed ELSE 2 * oldCap

\* append(s, xs...): in place when the capacity allows it, else into a new array
SliceAppend(h, s, xs) ==
    IF xs = <<>> THEN [heap |-> h, slice |-> s]
    ELSE IF s.len + Len(xs) <= s.cap
    THEN [heap  |-> [h EXCEPT ![s.arr] =
                        [i \in 1..s.cap |->
                            IF i > s.len /\ i <= s.len + Len(xs) THEN xs[i - s.len]
                            ELSE @[i]]],
          slice |-> [s EXCEPT !.len = s.len + Len(xs)]]
    ELSE LET c == GrowCap(s.cap, s.len + Len(xs))
         IN  [heap  |-> Append(h, Padded(SliceValue(h, s) \o xs, c)),
              slice |-> [arr |-> Len(h) + 1, len |-> s.len + Len(xs), cap |-> c]]

CallName(g) == IF g = 1 THEN "1" ELSE "2"

\* the options of call g: no two calls share a directory or a variable
CallOptions(g) ==
    [HostVolumesDir : {"/vol" \o CallName(g)}, HostConfigDir : {"/cfg" \o CallName(g)},
     HostDataDir : {"", "/data" \o CallName(g)},
     Environment : {<<"CALL=" \o CallName(g)>>},
     UseSharedVolume : BOOLEAN]

NewCall(o) == [pc |-> "binds", opt |-> o, binds |-> EmptySlice, env |-> EmptySlice,
               generated |-> FALSE, genBinds |-> <<>>, genEnv |-> <<>>,
               launchBinds |-> <<>>, launchEnv |-> <<>>]

NewCalls(g) == { NewCall(o) : o \in CallOptions(g) }

\* checkPortsInUse is not running
PortIdle ==
    /\ table = <<>> /\ data = <<>> /\ ports = <<>>
    /\ portCheck = [state |-> "idle", conflicts |-> <<>>]

BindInit ==
    /\ StartIdle
    /\ PortIdle
    /\ heap = <<Padded(initialBinds, GlobalSlice.cap)>>
    /\ calls \in { c \in [Calls -> UNION { NewCalls(g) : g \in Calls }] :
                       \A g \in Calls : c[g] \in NewCalls(g) }
    /\ IPIdle

\* what a step of a call leaves alone; the bind list is what its array holds
BindFrame ==
    /\ openShiftContainerBinds' = SliceValue(heap', GlobalSlice)
    /\ UNCHANGED <<opt, routingSuffix, hostCfg, fs, daemon, pc,
                   binds, env, configDir, skipCreateConfig, err, running, dialAttempts,
                   polls, resp, genCalls, copyCalls, patchCalls, launchCalls, queryCalls,
                   genBinds, launchBinds, probeDir, clientDir, retPath, retErr,
                   removeFailed, portVars, ipVars>>

\* lines 165-166: binds := openShiftContainerBinds; env := []string{}
AssignBinds(g) ==
    /\ calls[g].pc = "binds"
    /\ calls' = [calls EXCEPT ![g].binds = GlobalSlice, ![g].env = EmptySlice,
                              ![g].pc = "volume"]
    /\ UNCHANGED heap
    /\ BindFrame

\* lines 167-172: the bind of the volumes directory
AppendVolume(g) ==
    /\ calls[g].pc = "volume"
    /\ LET o == calls[g].opt
           r == SliceAppend(heap, calls[g].binds,
                            IF o.UseSharedVolume
                            THEN <<o.HostVolumesDir \o ":" \o o.HostVolumesDir \o ":shared">>
                            ELSE <<o.HostVolumesDir \o ":" \o o.HostVolumesDir>>)
       IN  /\ heap' = r.heap
           /\ calls' = [calls EXCEPT ![g].binds = r.slice, ![g].pc = "env"]
    /\ BindFrame

\* lines 169 and 173: the environment, which starts from a slice of its own
AppendEnv(g) ==
    /\ calls[g].pc = "env"
    /\ LET o == calls[g].opt
           c == SliceAppend(heap, calls[g].env,
                            IF o.UseSharedVolume THEN <<"OPENSHIFT_CONTAINERIZED=false">>
                            ELSE <<>>)
           r == SliceAppend(c.heap, c.slice, o.Environment)
       IN  /\ heap' = r.heap
           /\ calls' = [calls EXCEPT ![g].env = r.slice, ![g].pc = "config"]
    /\ BindFrame

\* line 174: the bind of the configuration directory
AppendConfig(g) ==
    /\ calls[g].pc = "config"
    /\ LET o == calls[g].opt
           r == SliceAppend(heap, calls[g].binds,
                            <<o.HostConfigDir \o ":/var/lib/origin/openshift.local.config:z">>)
       IN  /\ heap' = r.heap
           /\ calls' = [calls EXCEPT ![g].binds = r.slice, ![g].pc = "generate"]
    /\ BindFrame

\* lines 195-216: Bind(binds...) and Env(env...) of the generation, unless it is skipped
PassToGeneration(g) ==
    /\ calls[g].pc = "generate"
    /\ \E skip \in BOOLEAN :
         calls' = IF skip THEN [calls EXCEPT ![g].pc = "data"]
                  ELSE [calls EXCEPT ![g].generated = TRUE,
                                     ![g].genBinds = SliceValue(heap, calls[g].binds),
                                     ![g].genEnv = SliceValue(heap, calls[g].env),
                                     ![g].pc = "data"]
    /\ UNCHANGED heap
    /\ BindFrame

\* lines 246-248: the bind of the data directory, when there is one
AppendData(g) ==
    /\ calls[g].pc = "data"
    /\ LET o == calls[g].opt
           r == SliceAppend(heap, calls[g].binds,
                            IF o.HostDataDir # ""
                            THEN <<o.HostDataDir \o ":/var/lib/origin/openshift.local.etcd:z">>
                            ELSE <<>>)
       IN  /\ heap' = r.heap
           /\ calls' = [calls EXCEPT ![g].binds = r.slice, ![g].pc = "launch"]
    /\ BindFrame

\* lines 249-257: Bind(binds...) and Env(env...) of the daemon container
PassToLaunch(g) ==
    /\ calls[g].pc = "launch"
    /\ calls' = [calls EXCEPT ![g].launchBinds = SliceValue(heap, calls[g].binds),
                              ![g].launchEnv = SliceValue(heap, calls[g].env),
                              ![g].pc = "done"]
    /\ UNCHANGED heap
    /\ BindFrame

BindNext ==
    \E g \in Calls :
        \/ AssignBinds(g)
        \/ AppendVolume(g)
        \/ AppendEnv(g)
        \/ AppendConfig(g)
        \/ PassToGeneration(g)
        \/ AppendData(g)
        \/ PassToLaunch(g)

BindSpec == BindInit /\ [][BindNext]_vars

----------------------------------------------------------------------------
(* Helper.TestIP *)

\* line 118: the retries given to WaitForSuccessfulDial
testIPRetries == 10

TestIPs == {"10.0.0.5", "192.168.1.10", "172.17.0.1"}

IPInit ==
    /\ StartIdle
    /\ PortIdle
    /\ heap = <<>> /\ calls = <<>>
    /\ testIP \in TestIPs
    /\ ipPc = "start"
    /\ testId = ""
    /\ listener = "absent"
    /\ testHost = ""
    /\ ipDials = 0
    /\ stopCalls = 0
    /\ stopFailed = FALSE
    /\ ipRet = NoError

\* dockerHelper.StopAndRemoveContainer: the container is gone when it returns nil
StopAndRemoveContainer(container, ok) == IF ok THEN "removed" ELSE container

\* a teardown written after the dial instead of deferred: an early return skips it
ExitAfterDialSkipsTeardown(dialErr) == IF dialErr = NoError THEN "deferred" ELSE "returned"

\* lines 111-113: the deferred function runs at every return after line 110
ExitAfterDial(dialErr) == "deferred"

\* lines 103-110: start the test server on the host
StartTestServer ==
    /\ ipPc = "start"
    /\ \E ok \in BOOLEAN :
         IF ok
         THEN /\ testId' = "socat"
              /\ listener' = "running"
              /\ ipPc' = "dial"
              /\ testHost' = testIP \o ":8443"
              /\ UNCHANGED ipRet
         ELSE /\ ipRet' = WithCause(NewError("cannnot start simple server on Docker host"),
                                    "Start error")
              /\ ipPc' = "returned"
              /\ UNCHANGED <<testId, listener, testHost>>
    /\ UNCHANGED <<startVars, portVars, bindVars, testIP, ipDials, stopCalls, stopFailed>>

\* lines 116-123: one connection attempt of WaitForSuccessfulDial against <ip>:8443
DialTestServer ==
    /\ ipPc = "dial"
    /\ ipDials' = ipDials + 1
    /\ \E connected \in BOOLEAN :
         IF connected
         THEN ipRet' = NoError /\ ipPc' = ExitAfterDial(ipRet')
         ELSE IF DialExhausted(ipDials', testIPRetries)
         THEN ipRet' = RawError("Dial error") /\ ipPc' = ExitAfterDial(ipRet')
         ELSE UNCHANGED <<ipRet, ipPc>>
    /\ UNCHANGED <<startVars, portVars, bindVars, testIP, testId, listener, testHost,
                   stopCalls, stopFailed>>

\* lines 111-113: errors.LogError(h.dockerHelper.StopAndRemoveContainer(id))
Teardown ==
    /\ ipPc = "deferred"
    /\ stopCalls' = stopCalls + 1
    /\ \E ok \in BOOLEAN :
         /\ listener' = StopAndRemoveContainer(listener, ok)
         /\ stopFailed' = ~ok
    /\ ipPc' = "returned"
    /\ UNCHANGED <<startVars, portVars, bindVars, testIP, testId, testHost, ipDials, ipRet>>

IPNext ==
    \/ StartTestServer
    \/ DialTestServer
    \/ Teardown

IPSpec == IPInit /\ [][IPNext]_vars

----------------------------------------------------------------------------
(* Properties of Helper.Start *)

Failed == Returned /\ retErr # NoError

Succeeded == Returned /\ retErr = NoError

LastPoll == polls[Len(polls)]

TransientStatuses == {StatusServiceUnavailable, StatusForbidden}

\* the errors Start builds around the error of a collaborator
WrappingMessages ==
    {"could not create OpenShift configuration", "could not copy OpenShift configuration",
     "could not update OpenShift configuration",
     "could not get OpenShift configuration file paths", "cannot start OpenShift daemon",
     "cannot get state of OpenShift container", "cannot access master readiness URL"}

\* the failures of the stages that come after the staging
AfterStaging == Failed /\ retErr.msg \notin {"could not create OpenShift configuration",
                                              "could not copy OpenShift configuration"}

\* C1: when Start returns the error of a stage that comes after the staging
\* while it holds a staged configuration directory, and no removal failed,
\* that directory no longer exists.
C1_CleanupOnFailure ==
    (AfterStaging /\ configDir # NoPath /\ ~removeFailed) => ~fs[configDir].exists

\* C2: a nil error comes with the path of a staged directory of this attempt
\* that still exists and holds master/master-config.yaml; an error comes with
\* the empty path.
C2_SuccessHandoff ==
    Returned =>
        IF retErr = NoError
        THEN /\ retPath \in 1..Len(fs)
             /\ fs[retPath].exists
             /\ fs[retPath].master.present
        ELSE retPath = NoPath

\* Start returned a staged directory after generating and patching a configuration
C2_Witness == Succeeded /\ genCalls = 1 /\ patchCalls = 1 /\ retPath = configDir

\* C3 as stated: every execution of Start eventually returns.
C3_StartTerminates == <>Returned

\* C3 as amended: every execution of Start eventually returns, unless the
\* readiness endpoint answers 503 or 403 again and again for ever.
C3_TerminatesUnlessTransientForEver ==
    <>Returned \/ []<>(pc = "sleep" /\ resp.StatusCode \in TransientStatuses)

\* Start returned after the readiness loop went round at least once
C3_Witness == Returned /\ Len(polls) >= 2 /\ polls[1] \in TransientStatuses

\* what C4 says around the body of the fatal error
C4_Classification ==
    /\ \A i \in 1..(Len(polls) - 1) : polls[i] \in TransientStatuses
    /\ pc = "sleep" => (polls # <<>> /\ LastPoll \in TransientStatuses)
    /\ (Returned /\ polls # <<>>) => LastPoll \notin TransientStatuses
    /\ (Returned /\ polls # <<>> /\ LastPoll = StatusOK) =>
           (retErr = NoError /\ retPath = configDir)
    /\ (Returned /\ polls # <<>> /\ LastPoll \notin {StatusOK, NoResponse.StatusCode}) =>
           /\ retErr.msg = "server is not ready"
           /\ retErr.status = LastPoll
           /\ retPath = NoPath

\* C4 as stated: every GET but the last was answered 503 or 403, a 200 ends
\* the loop in success, and any other last status ends Start with an error
\* that carries that status and the body of that response.
C4_ReadinessOriginal ==
    /\ C4_Classification
    /\ (Returned /\ polls # <<>> /\ LastPoll \notin {StatusOK, NoResponse.StatusCode}) =>
           retErr.body = resp.Body

\* C4 as amended: the same, but the error carries the body only when the
\* body could be read, and an empty body text otherwise.
C4_ReadinessAmended ==
    /\ C4_Classification
    /\ (Returned /\ polls # <<>> /\ LastPoll \notin {StatusOK, NoResponse.StatusCode}) =>
           retErr.body = IF resp.readable THEN resp.Body ELSE ""

\* the responses 403, 500 end Start with an error that carries 500 and the body
C4_Witness ==
    /\ Returned
    /\ polls = <<StatusForbidden, StatusInternalServerError>>
    /\ retErr.status = StatusInternalServerError
    /\ retErr.body = resp.Body

\* C5: when a readiness GET fails at the transport level, Start returns at
\* once with an error whose cause is the error of that GET.
C5_TransportErrorCause ==
    (Returned /\ polls # <<>> /\ LastPoll = NoResponse.StatusCode) =>
        /\ retErr.msg = "cannot access master readiness URL"
        /\ retErr.cause = "Get error"

\* C6: when UseExistingConfig is set and the probe staged a directory that
\* holds the master configuration, Start never generates, never stages again
\* and never patches, and the probe's directory is the one the HTTP client is
\* built from and the one returned on success.
C6_ExistingConfigReused ==
    (opt.UseExistingConfig /\ probeDir # NoPath /\ fs[probeDir].master.present) =>
        /\ genCalls = 0
        /\ copyCalls = 1
        /\ patchCalls = 0
        /\ configDir = probeDir
        /\ clientDir \in {NoPath, probeDir}
        /\ Succeeded => retPath = probeDir

\* Start returned the directory the probe staged
C6_Witness ==
    /\ Succeeded
    /\ opt.UseExistingConfig
    /\ retPath = probeDir
    /\ clientDir = probeDir
    /\ fs[probeDir].master.present

\* the probe ran and found no configuration to reuse
ProbeFailed == opt.UseExistingConfig /\ copyCalls >= 1 /\ ~skipCreateConfig

\* C7: a probe that fails returns nothing; Start goes on to the generation
\* with the binds, the environment and the host as they were, and whatever
\* it returns later, it returns after having run the generation.
C7_ProbeNeverFatal ==
    [][ /\ pc = "probe" =>
             /\ retErr' = NoError
             /\ retPath' = NoPath
             /\ IF skipCreateConfig' THEN pc' = "configFiles" ELSE pc' = "generate"
             /\ <<binds, env, hostCfg, genCalls>>' = <<binds, env, hostCfg, genCalls>>
        /\ (ProbeFailed /\ pc = "generate") => genCalls' = 1
        /\ (ProbeFailed /\ Returned)' => genCalls' = 1 ]_vars

\* after a probe that staged a directory without master configuration, Start succeeded
C7_Witness ==
    /\ Succeeded
    /\ ProbeFailed
    /\ probeDir # NoPath
    /\ ~fs[probeDir].master.present
    /\ genCalls = 1

\* C8: a state query that fails gives the state-query error; a container
\* found not running gives FailedToStart, and nothing else does; the dial
\* probe giving up on a running container gives TimedOutWaitingForStart,
\* and nothing else does.
C8_FailureClassification ==
    Returned =>
        /\ (queryCalls = 1 /\ err = "GetContainerState error") =>
               /\ retErr.msg = "cannot get state of OpenShift container"
               /\ retErr.cause = err
        /\ (queryCalls = 1 /\ err = Nil /\ ~running) => retErr = ErrOpenShiftFailedToStart
        /\ (running /\ clientDir = NoPath) =>
               /\ retErr = ErrTimedOutWaitingForStart
               /\ dialAttempts = serverUpTimeout
        /\ retErr = ErrOpenShiftFailedToStart =>
               (queryCalls = 1 /\ err = Nil /\ ~running /\ dialAttempts = 0)
        /\ retErr = ErrTimedOutWaitingForStart =>
               (running /\ dialAttempts = serverUpTimeout /\ clientDir = NoPath
                  /\ polls = <<>>)

\* the dial probe gave up on a container that was running
C8_Witness ==
    /\ Returned
    /\ retErr = ErrTimedOutWaitingForStart
    /\ running
    /\ dialAttempts = serverUpTimeout

\* C9: every error Start returns is an error of a stage, never the error of
\* a collaborator as it is, and the errors built around a collaborator's
\* error carry it as their cause.
C9_ErrorsAreWrapped ==
    Failed =>
        /\ retErr.class = "stage"
        /\ retErr.msg \in WrappingMessages => retErr.cause # Nil

\* each of the generation, the staging, the patch and the launch ran exactly once
EachStageOnce == genCalls = 1 /\ copyCalls = 1 /\ patchCalls = 1 /\ launchCalls = 1

\* C12: with UseExistingConfig false, a first readiness GET answered 200 ends
\* Start at once with a nil error and the path of the staged directory, after
\* exactly one generation, one staging, one patch, one launch and one GET;
\* until then every stage that succeeds hands over to the next one.
C12_HappyPath ==
    ~opt.UseExistingConfig =>
        /\ (polls # <<>> /\ polls[1] = StatusOK) =>
               /\ Succeeded
               /\ Len(polls) = 1
               /\ retPath = configDir
               /\ retPath \in 1..Len(fs)
               /\ fs[retPath].exists
               /\ fs[retPath].master.present
               /\ EachStageOnce
               /\ queryCalls = 1
               /\ daemon = "present"
        /\ pc \in {"get", "sleep"} => (EachStageOnce /\ running /\ clientDir = configDir)
        /\ Succeeded => EachStageOnce

\* Start succeeded on the first GET after generating a configuration
C12_Witness ==
    /\ Succeeded
    /\ ~opt.UseExistingConfig
    /\ polls = <<StatusOK>>
    /\ dialAttempts = 1
    /\ EachStageOnce
    /\ retPath = configDir

\* the subdomain C13 names for this helper
ExpectedSubdomain ==
    IF routingSuffix = "" THEN opt.ServerIP \o ".xip.io" ELSE routingSuffix

\* C13: when updateConfig returns nil, the staged master configuration has the
\* routing suffix of the helper as its routing subdomain, or <serverIP>.xip.io
\* when the suffix is empty, and is otherwise what it was, and the host holds
\* the rewritten file; when it returns an error, Start returns the
\* configuration-update error with that error as its cause, and goes no further.
C13_RoutingSubdomainPatch ==
    [][ pc = "update" =>
          IF pc' = "configFiles"
          THEN /\ fs'[configDir].master =
                      [fs[configDir].master EXCEPT !.subdomain = ExpectedSubdomain]
               /\ hostCfg' = fs'[configDir].master
               /\ retErr' = NoError
          ELSE /\ Returned'
               /\ retPath' = NoPath
               /\ retErr'.msg = "could not update OpenShift configuration"
               /\ retErr'.cause \in {"ReadMasterConfig error", "WriteYAML error",
                                     "WriteFile error", "CopyMasterConfigToHost error"}
               /\ launchCalls' = 0 ]_vars

\* updateConfig returned nil for a helper with a routing suffix
C13_Witness ==
    /\ pc = "configFiles"
    /\ patchCalls = 1
    /\ routingSuffix = "apps.example.com"
    /\ fs[configDir].master.subdomain = "apps.example.com"
    /\ fs[configDir].master.rest = "generated"
    /\ hostCfg = fs[configDir].master

\* a configuration has been resolved: the probe found one, or one was
\* generated, staged and patched
ConfigResolved ==
    \/ /\ skipCreateConfig
       /\ configDir = probeDir
       /\ genCalls = 0
    \/ /\ genCalls = 1
       /\ patchCalls = 1
       /\ hostCfg.present
       /\ hostCfg.subdomain = ExpectedSubdomain
    
\* no collaborator of the stages from the launch on has been invoked
NothingLaunched ==
    launchCalls = 0 /\ queryCalls = 0 /\ dialAttempts = 0 /\ clientDir = NoPath /\ polls = <<>>

\* C14: the daemon is launched only with a resolved configuration that is
\* staged, the state is queried only after a launch that succeeded, the dial
\* probe runs only on a container found running, the HTTP client is built and
\* a readiness GET issued only after the dial probe succeeded, an error of a
\* stage is returned before any later stage has run, and Start does nothing
\* after it has returned.
C14_StageOrdering ==
    /\ [](/\ launchCalls >= 1 =>
                (ConfigResolved /\ configDir # NoPath /\ fs[configDir].master.present)
          /\ queryCalls >= 1 => (launchCalls = 1 /\ daemon = "present")
          /\ dialAttempts >= 1 => (queryCalls = 1 /\ running)
          /\ clientDir # NoPath => (dialAttempts >= 1 /\ clientDir = configDir)
          /\ polls # <<>> => (clientDir # NoPath /\ pc \in {"get", "sleep", "returned"})
          /\ patchCalls >= 1 => (genCalls = 1 /\ ~skipCreateConfig)
          /\ (Failed /\ retErr.msg = "could not create OpenShift configuration") =>
                 (patchCalls = 0 /\ copyCalls <= 1 /\ NothingLaunched)
          /\ (Failed /\ retErr.msg \in {"could not copy OpenShift configuration",
                                        "could not update OpenShift configuration",
                                        "could not get OpenShift configuration file paths"}) =>
                 NothingLaunched
          /\ (Failed /\ retErr.msg = "cannot start OpenShift daemon") =>
                 (queryCalls = 0 /\ dialAttempts = 0 /\ polls = <<>>)
          /\ (Failed /\ \/ retErr.msg = "cannot get state of OpenShift container"
                        \/ retErr = ErrOpenShiftFailedToStart) =>
                 (dialAttempts = 0 /\ clientDir = NoPath /\ polls = <<>>)
          /\ (Failed /\ retErr = ErrTimedOutWaitingForStart) =>
                 (clientDir = NoPath /\ polls = <<>>)
          /\ (Failed /\ retErr.class = "collaborator") => polls = <<>>)
    /\ [][Returned => vars' = vars]_vars

\* the container was found stopped: Start returned without dialing
C14_Witness ==
    /\ Failed
    /\ retErr = ErrOpenShiftFailedToStart
    /\ launchCalls = 1
    /\ queryCalls = 1
    /\ dialAttempts = 0
    /\ polls = <<>>

\* the step runs copyConfig
CopyConfigStep == pc \in {"probe", "stage"}

\* copyConfig returned a fresh directory that holds the copy of the host's tree
StagedFresh ==
    /\ configDir' = Len(fs) + 1
    /\ Len(fs') = Len(fs) + 1
    /\ \A d \in 1..Len(fs) : fs'[d] = fs[d]
    /\ fs'[configDir'].exists
    /\ fs'[configDir'].master = hostCfg
    /\ pc = "stage" => pc' = "update"

\* copyConfig returned the empty path and an error
ReturnedCopyError ==
    /\ configDir' = NoPath
    /\ \A d \in 1..Len(fs) : fs'[d] = fs[d]
    /\ pc = "stage" =>
           /\ Failed'
           /\ retErr'.msg = "could not copy OpenShift configuration"
           /\ retErr'.cause \in {"TempDir error", "CopyFromHost error"}

\* no directory that copyConfig created exists
NoNewDirectory == \A d \in 1..Len(fs') : d > Len(fs) => ~fs'[d].exists

\* C15 as stated: copyConfig returns a fresh directory with the copied tree
\* and a nil error, or the empty path with an error and no directory of its
\* making left behind.
C15_AllOrNothing ==
    [][CopyConfigStep => \/ StagedFresh
                         \/ ReturnedCopyError /\ NoNewDirectory]_vars

\* C15 as amended: the same, but after a copy that failed the directory is
\* left behind when os.RemoveAll fails as well.
C15_AllOrNothingUnlessRemovalFails ==
    [][CopyConfigStep => \/ StagedFresh
                         \/ ReturnedCopyError /\ NoNewDirectory
                         \/ ReturnedCopyError /\ removeFailed' /\ Len(fs') = Len(fs) + 1]_vars

\* the probe's copy failed and its temporary directory was removed
C15_Witness ==
    /\ pc = "generate"
    /\ copyCalls = 1
    /\ configDir = NoPath
    /\ Len(fs) = 1
    /\ ~fs[1].exists
    /\ ~removeFailed

\* the launch of the daemon container succeeded
LaunchSucceeded ==
    /\ launchCalls = 1
    /\ pc # "launch"
    /\ ~(Failed /\ retErr.msg = "cannot start OpenShift daemon")

\* C16: once the daemon container has been launched, it is present in every
\* later state of Start, the states in which Start has returned the error of
\* the state query, the dial probe, the HTTP client or the readiness poll
\* included: no step of Start stops or removes it.
C16_ContainerLeftRunning ==
    /\ [](LaunchSucceeded => daemon = "present")
    /\ [][daemon = "present" => daemon' = "present"]_vars

\* the dial probe gave up and the container is still there
C16_Witness ==
    /\ Failed
    /\ LaunchSucceeded
    /\ retErr = ErrTimedOutWaitingForStart
    /\ daemon = "present"

\* C18: when Start returns and no removal has failed, the only staged
\* directory of this attempt that still exists is the one returned on
\* success; a directory the probe staged and found without master
\* configuration is gone.
C18_NoOrphanedStaging ==
    (Returned /\ ~removeFailed) =>
        /\ \A d \in 1..Len(fs) : fs[d].exists => (Succeeded /\ d = retPath)
        /\ (ProbeFailed /\ probeDir # NoPath) => ~fs[probeDir].exists

----------------------------------------------------------------------------
(* Properties of checkPortsInUse *)

InUse(p) == p \in ListeningPorts(table)

\* C10: checkPortsInUse returns, and returns an error exactly when a required
\* port is the local port of a record in state 0A; the error lists those
\* required ports in the order of the required list.
C10_PortConflicts ==
    portCheck.state # "idle" =>
        /\ portCheck.state \in {"nil", "error"}
        /\ (portCheck.state = "error") <=> (\E i \in 1..Len(ports) : InUse(ports[i]))
        /\ portCheck.conflicts = SelectSeq(ports, InUse)

\* the line has fewer than four fields, or a first field without ':'
Malformed(line) == Len(line) < 4 \/ ~Contains(line[1].text, ":")

WellFormed(line) == ~Malformed(line)

\* C11: checkPortsInUse does not fail on a table with malformed lines, and
\* returns what it returns for the table without them.
C11_MalformedLinesSkipped ==
    portCheck.state # "idle" =>
        LET kept == SelectSeq(table, WellFormed)
        IN  /\ portCheck.state # "panic"
            /\ portCheck = checkPortsInUse(Render(kept, Len(kept)), ports)

----------------------------------------------------------------------------
(* Properties of concurrent calls of Helper.Start *)

\* the binds call g derives from its own options, before the data bind
OwnBinds(g) ==
    LET o == calls[g].opt
    IN  initialBinds
        \o <<o.HostVolumesDir \o ":" \o o.HostVolumesDir
                 \o (IF o.UseSharedVolume THEN ":shared" ELSE "")>>
        \o <<o.HostConfigDir \o ":/var/lib/origin/openshift.local.config:z">>

OwnDataBind(g) ==
    LET o == calls[g].opt
    IN  IF o.HostDataDir = "" THEN <<>>
        ELSE <<o.HostDataDir \o ":/var/lib/origin/openshift.local.etcd:z">>

OwnEnv(g) ==
    LET o == calls[g].opt
    IN  (IF o.UseSharedVolume THEN <<"OPENSHIFT_CONTAINERIZED=false">> ELSE <<>>)
        \o o.Environment

\* C17: in every interleaving of two calls of Start the package-level bind
\* list keeps its four initial entries, and the binds and the environment a
\* call passes to its generation and to its daemon container are those of
\* its own options.
C17_NoSharedMutableState ==
    /\ openShiftContainerBinds = initialBinds
    /\ \A g \in DOMAIN calls :
         /\ calls[g].generated =>
                /\ calls[g].genBinds = OwnBinds(g)
                /\ calls[g].genEnv = OwnEnv(g)
         /\ calls[g].pc = "done" =>
                /\ calls[g].launchBinds = OwnBinds(g) \o OwnDataBind(g)
                /\ calls[g].launchEnv = OwnEnv(g)

\* two calls with different options have both launched their daemon after
\* both ran their generation
C17_Witness ==
    /\ DOMAIN calls = Calls
    /\ \A g \in Calls : calls[g].pc = "done" /\ calls[g].generated
    /\ calls[1].opt.UseSharedVolume # calls[2].opt.UseSharedVolume
    /\ calls[1].launchBinds # calls[2].launchBinds

----------------------------------------------------------------------------
(* Properties of Helper.TestIP *)

\* what C19 says apart from the fate of the container
TestIPTeardownOnce ==
    /\ ipPc \in {"dial", "deferred"} => (stopCalls = 0 /\ listener = "running")
    /\ ipPc = "returned" =>
         IF testId # ""
         THEN /\ stopCalls = 1
              /\ ipDials >= 1
              /\ testHost = testIP \o ":8443"
              /\ ipRet \in {NoError, RawError("Dial error")}
              /\ ipRet = RawError("Dial error") => ipDials = testIPRetries
         ELSE /\ ipRet.msg = "cannnot start simple server on Docker host"
              /\ ipRet.cause = "Start error"
              /\ ipDials = 0
              /\ stopCalls = 0
              /\ listener = "absent"

\* C19 as stated: when the test container was started, TestIP stops and
\* removes it exactly once before it returns, after a dial that succeeded as
\* after one that was exhausted, and returns the dial error if there is
\* one; when the start fails, TestIP returns an error without dialing and
\* without stopping any container.
C19_TestIPTearsDown ==
    /\ TestIPTeardownOnce
    /\ (ipPc = "returned" /\ testId # "") => listener = "removed"

\* C19 as amended: the same, but the container is gone only if
\* StopAndRemoveContainer returned no error; its error is logged and the
\* container may be left.
C19_TestIPTearsDownUnlessStopFails ==
    /\ TestIPTeardownOnce
    /\ (ipPc = "returned" /\ testId # "") => (listener = "removed" \/ stopFailed)
    /\ (ipPc = "returned" /\ testId # "" /\ ~stopFailed) => listener = "removed"

\* the dial probe was exhausted, the container was removed and the dial error returned
C19_Witness ==
    /\ ipPc = "returned"
    /\ testId # ""
    /\ ipDials = testIPRetries
    /\ ipRet = RawError("Dial error")
    /\ stopCalls = 1
    /\ listener = "removed"

TypeOK ==
    /\ pc \in {"entry", "probe", "generate", "stage", "update", "configFiles", "launch",
               "query", "dial", "client", "get", "sleep", "returned", "idle"}
    /\ configDir \in 0..Len(fs)
    /\ Len(fs) <= 2
    /\ Len(polls) <= MaxPolls
    /\ dialAttempts \in 0..serverUpTimeout
====
